---------------------------- MODULE Spec2Model ----------------------------
(***************************************************************************)
(* The animation engine of DiagramViewer (arch-flow): the React state of   *)
(* the component, the rendered SVG graph, the browser's timer queue and    *)
(* the closures ("loops") that the animation effect creates.               *)
(*                                                                         *)
(* One action is one browser task run to completion: an event handler or   *)
(* a timer callback, the microtasks it releases (the continuation of an    *)
(* await) and the React commit it causes: the cleanup of the previous      *)
(* effect and the run of the new one, repeated while the effect itself     *)
(* changes a dependency.  Times are in milliseconds.                       *)
(***************************************************************************)
EXTENDS Integers, Sequences, FiniteSets, TLC

VARIABLES
    flows,                \* analysis.flows (a prop: fixed after Init)
    selectedFlow,         \* useState(0): index into flows, 0-based
    isAnimating,          \* useState(false)
    isPaused,             \* useState(false)
    currentStep,          \* useState(0)
    highlighted,          \* rendered nodes whose shape carries the glow/scale
    arrows,               \* inline style of every rendered edge path
    timers,               \* pending setTimeout callbacks, in firing order
    loops,                \* closures of the effect runs that are still reachable
    effectLoop,           \* the loop of the effect whose cleanup is registered (0: none)
    animationTimeoutRef,  \* useRef: the loop whose animate timer was stored last (0: null)
    lastCmd,              \* history: the last user command and the state it was issued in
    cmds,                 \* history: number of user commands issued
    clock,                \* history: milliseconds since the last user command
    stepNode,             \* label matching: the step's node label, a sequence of characters
    labelText,            \* label matching: the .nodeLabel textContent of a rendered node
    matches,              \* label matching: "pending", then "match" or "miss"
    jobs,                 \* Status Store: the job record stored under each analysis id
    memoryBlobs,          \* Result Store: the artifact stored under the repository's key
    cacheMetadata,        \* the cache metadata stored for the repository (NoData: none)
    runs,                 \* the position of runAnalysis for each analysis id
    persisted,            \* history: the artifacts ever written to the Result Store
    stream,               \* one connection of the status stream
    now,                  \* Date.now() on the server, in milliseconds
    body,                 \* the owner and name that the creation requests carry
    response,             \* the response to the last creation request
    client                \* the ProgressStream component: mounted, position, event source

viewerVars == <<flows, selectedFlow, isAnimating, isPaused, currentStep, highlighted,
                arrows, timers, loops, effectLoop, animationTimeoutRef, lastCmd, cmds, clock>>

matchVars == <<stepNode, labelText, matches>>

serverVars == <<jobs, memoryBlobs, cacheMetadata, runs, persisted, stream>>

requestVars == <<now, body, response, client>>

vars == <<viewerVars, matchVars, serverVars, requestVars>>

---------------------------------------------------------------------------
(* Bounds of the model *)

MaxCmds == 3
MaxSteps == 3

(* Program constants *)

ManualHoldMs == 5000
PollMs == 100

Max(a, b) == IF a >= b THEN a ELSE b
Min(a, b) == IF a <= b THEN a ELSE b

---------------------------------------------------------------------------
(* The rendered graph: the .nodeLabel text of every .node, as the words    *)
(* label.split(/\s+/) yields, and one inline style per edge path.          *)

RenderedLabels ==
    << <<"client", "browser">>,
       <<"api", "server">>,
       <<"api", "gateway">>,
       <<"channels", "group", "chat">> >>

Nodes == DOMAIN RenderedLabels

PlainArrow == [stroke |-> "", width |-> "", glow |-> FALSE, dash |-> FALSE]

EmphasizedArrow == [stroke |-> "#F59E0B", width |-> "4px", glow |-> TRUE, dash |-> TRUE]

RenderedArrows == <<PlainArrow, PlainArrow>>

(* words.every((word, idx) => labelWords[idx] === word) *)
MatchesLabel(words, labelWords) ==
    \A i \in 1..Len(words) : i <= Len(labelWords) /\ labelWords[i] = words[i]

MatchingNodes(words) == {n \in Nodes : MatchesLabel(words, RenderedLabels[n])}

---------------------------------------------------------------------------
(* Flows *)

Step(s, n, d) == [step |-> s, node |-> n, duration |-> d]

FlowA == << Step(1, <<"client">>, 100),
            Step(2, <<"api", "server">>, 0),
            Step(3, <<"chat">>, 200) >>

FlowB == << Step(1, <<"api">>, 100) >>

SampleFlows == <<FlowA, FlowB>>

CurrentFlow(w) == w.flows[w.selectedFlow + 1]

---------------------------------------------------------------------------
(* The world as one record, so that handlers compose as functions *)

World ==
    [flows |-> flows, selectedFlow |-> selectedFlow, isAnimating |-> isAnimating,
     isPaused |-> isPaused, currentStep |-> currentStep, highlighted |-> highlighted,
     arrows |-> arrows, timers |-> timers, loops |-> loops, effectLoop |-> effectLoop,
     animationTimeoutRef |-> animationTimeoutRef]

Deps(w) == <<w.isAnimating, w.selectedFlow, w.isPaused, w.currentStep>>

(* setTimeout: callbacks fire by deadline, equal deadlines in creation order *)
(* kind: "arrow" (edge reset), "node" (emphasis removal, then resolve),      *)
(* "miss" (resolve only), "animate" (animateStep).  loop: the closure the   *)
(* callback belongs to (0: a manual step's promise, nobody continues).      *)
(* pos: the flow and array position of the step the highlight was made for. *)
Timer(k, d, l, t, o, p) ==
    [kind |-> k, rem |-> d, loop |-> l, target |-> t, orig |-> o, pos |-> p]

NoPos == <<0, 0>>

(* orig: originalStroke and originalStrokeWidth of an edge reset; before is *)
(* history, the inline style the edge had when they were captured.         *)
NoOrig == [stroke |-> "", width |-> "", before |-> [stroke |-> "", width |-> ""]]

SetTimeout(ts, t) ==
    LET before == SelectSeq(ts, LAMBDA x : x.rem <= t.rem)
        after  == SelectSeq(ts, LAMBDA x : x.rem > t.rem)
    IN  before \o <<t>> \o after

(* clearTimeout of the animate timer a loop has pending *)
ClearAnimateTimer(ts, l) ==
    SelectSeq(ts, LAMBDA x : ~(x.kind = "animate" /\ x.loop = l))

---------------------------------------------------------------------------
(* DOM operations *)

ClearHighlights(w) ==
    [w EXCEPT !.highlighted = {},
              !.arrows = [a \in DOMAIN w.arrows |-> PlainArrow]]

HighlightArrow(w, stepNumber, duration) ==
    IF stepNumber \in DOMAIN w.arrows
    THEN LET arrow == w.arrows[stepNumber]
             originalStroke == IF arrow.stroke # "" THEN arrow.stroke ELSE "#333"
             originalStrokeWidth == IF arrow.width # "" THEN arrow.width ELSE "2"
         IN  [w EXCEPT !.arrows[stepNumber] = EmphasizedArrow,
                       !.timers = SetTimeout(@, Timer("arrow", duration, 0, stepNumber,
                                      [stroke |-> originalStroke,
                                       width |-> originalStrokeWidth,
                                       before |-> [stroke |-> arrow.stroke,
                                                   width |-> arrow.width]],
                                      NoPos))]
    ELSE w

RECURSIVE NodeTimers(_, _, _, _, _, _)
NodeTimers(ts, n, matched, duration, owner, pos) ==
    IF n > Len(RenderedLabels) THEN ts
    ELSE NodeTimers(IF n \in matched
                    THEN SetTimeout(ts, Timer("node", duration, owner, n, NoOrig, pos))
                    ELSE ts,
                    n + 1, matched, duration, owner, pos)

(* A faulty highlightNode, whose promise is never resolved when no node   *)
(* matches                                                                 *)
HighlightNodeNoResolve(w, nodeName, duration, stepNumber, owner, pos) ==
    LET w1 == HighlightArrow(w, stepNumber, duration)
        matched == MatchingNodes(nodeName)
    IN  IF matched # {}
        THEN [w1 EXCEPT !.highlighted = @ \cup matched,
                        !.timers = NodeTimers(@, 1, matched, duration, owner, pos)]
        ELSE w1

(* The synchronous part of highlightNode: the promise executor.  owner is  *)
(* the loop that awaits the promise.                                       *)
HighlightNode(w, nodeName, duration, stepNumber, owner, pos) ==
    LET w1 == HighlightArrow(w, stepNumber, duration)
        matched == MatchingNodes(nodeName)
    IN  IF matched # {}
        THEN [w1 EXCEPT !.highlighted = @ \cup matched,
                        !.timers = NodeTimers(@, 1, matched, duration, owner, pos)]
        ELSE [w1 EXCEPT !.timers =
                 SetTimeout(@, Timer("miss", duration, owner, 0, NoOrig, pos))]

---------------------------------------------------------------------------
(* The animation effect *)

NewLoop(w) == CHOOSE l \in 1..(Cardinality(DOMAIN w.loops) + 1) : l \notin DOMAIN w.loops

(* animateStep up to its await (or to its return) *)
AnimateStep(w, l) ==
    LET loop == w.loops[l]
        flow == w.flows[loop.flow + 1]
    IN  IF loop.isPaused
        THEN [w EXCEPT !.timers = SetTimeout(@, Timer("animate", PollMs, l, 0, NoOrig, NoPos)),
                       !.animationTimeoutRef = l]
        ELSE IF loop.stepIndex >= Len(flow)
        THEN [w EXCEPT !.isAnimating = FALSE, !.currentStep = 0]
        ELSE LET step == flow[loop.stepIndex + 1]
                 w1 == [w EXCEPT !.currentStep = loop.stepIndex + 1,
                                 !.loops[l].awaiting = TRUE]
             IN  HighlightNode(ClearHighlights(w1), step.node, step.duration, step.step,
                               l, <<loop.flow, loop.stepIndex + 1>>)

(* A faulty continuation, which does not advance the cursor *)
AfterAwaitSameStep(w, l) ==
    IF l = 0 \/ ~w.loops[l].awaiting THEN w
    ELSE LET loop == w.loops[l]
             step == w.flows[loop.flow + 1][loop.stepIndex + 1]
         IN  [w EXCEPT !.loops[l].awaiting = FALSE,
                       !.loops[l].timeoutId = TRUE,
                       !.timers = SetTimeout(@, Timer("animate", step.duration, l, 0,
                                                      NoOrig, NoPos)),
                       !.animationTimeoutRef = l]

(* A faulty continuation, which advances the cursor by two *)
AfterAwaitSkipsStep(w, l) ==
    IF l = 0 \/ ~w.loops[l].awaiting THEN w
    ELSE LET loop == w.loops[l]
             step == w.flows[loop.flow + 1][loop.stepIndex + 1]
         IN  [w EXCEPT !.loops[l].stepIndex = @ + 2,
                       !.loops[l].awaiting = FALSE,
                       !.loops[l].timeoutId = TRUE,
                       !.timers = SetTimeout(@, Timer("animate", step.duration, l, 0,
                                                      NoOrig, NoPos)),
                       !.animationTimeoutRef = l]

(* animateStep after its await: runs when the promise is first resolved *)
AfterAwait(w, l) ==
    IF l = 0 \/ ~w.loops[l].awaiting THEN w
    ELSE LET loop == w.loops[l]
             step == w.flows[loop.flow + 1][loop.stepIndex + 1]
         IN  [w EXCEPT !.loops[l].stepIndex = @ + 1,
                       !.loops[l].awaiting = FALSE,
                       !.loops[l].timeoutId = TRUE,
                       !.timers = SetTimeout(@, Timer("animate", step.duration, l, 0,
                                                      NoOrig, NoPos)),
                       !.animationTimeoutRef = l]

(* The function the effect returns *)
EffectCleanup(w) ==
    IF w.effectLoop = 0 THEN w
    ELSE LET w1 == ClearHighlights(w)
             ts1 == IF w.loops[w.effectLoop].timeoutId
                    THEN ClearAnimateTimer(w1.timers, w.effectLoop)
                    ELSE w1.timers
             ts2 == IF w.animationTimeoutRef # 0
                    THEN ClearAnimateTimer(ts1, w.animationTimeoutRef)
                    ELSE ts1
         IN  [w1 EXCEPT !.timers = ts2]

(* The effect body *)
RunEffect(w) ==
    IF ~w.isAnimating \/ Len(w.flows) = 0
    THEN [w EXCEPT !.effectLoop = 0]
    ELSE LET l == NewLoop(w)
             loop == [flow |-> w.selectedFlow,
                      isPaused |-> w.isPaused,
                      stepIndex |-> IF w.currentStep > 0 THEN w.currentStep - 1 ELSE 0,
                      timeoutId |-> FALSE,
                      awaiting |-> FALSE]
             w1 == [w EXCEPT !.loops = [x \in DOMAIN w.loops \cup {l} |->
                                          IF x = l THEN loop ELSE w.loops[x]],
                             !.effectLoop = l]
         IN  AnimateStep(w1, l)

(* Closures no pending callback and no registered cleanup can reach are    *)
(* dropped, and a ref to a timer that has fired or was cleared reads as    *)
(* null: clearTimeout of either does nothing.                              *)
Reachable(w) ==
    LET live == ({w.effectLoop} \cup {w.timers[i].loop : i \in DOMAIN w.timers}) \ {0}
        pendingAnimate == {w.timers[i].loop : i \in
                              {j \in DOMAIN w.timers : w.timers[j].kind = "animate"}}
    IN  [w EXCEPT !.loops = [x \in live |-> w.loops[x]],
                  !.animationTimeoutRef = IF @ \in pendingAnimate THEN @ ELSE 0]

(* React commit: when a dependency of the effect differs from the values   *)
(* of the render the registered effect belongs to, the cleanup runs, then  *)
(* the effect; state the effect sets is committed in turn.                 *)
RECURSIVE Commit(_, _)
Commit(w, deps) ==
    IF Deps(w) = deps THEN Reachable(w)
    ELSE Commit(RunEffect(EffectCleanup(w)), Deps(w))

---------------------------------------------------------------------------
(* Event handlers *)

(* A faulty start, which leaves the pause flag as it is *)
HandleStartKeepsPause(w) ==
    [w EXCEPT !.currentStep = 0, !.isAnimating = TRUE]

HandleStartAnimation(w) ==
    [w EXCEPT !.currentStep = 0, !.isPaused = FALSE, !.isAnimating = TRUE]

(* A faulty stop, which keeps the step indicator *)
HandleStopKeepsStep(w) ==
    ClearHighlights([w EXCEPT !.isAnimating = FALSE, !.isPaused = FALSE])

HandleStopAnimation(w) ==
    ClearHighlights([w EXCEPT !.isAnimating = FALSE, !.isPaused = FALSE,
                              !.currentStep = 0])

HandlePauseToggle(w) == [w EXCEPT !.isPaused = ~w.isPaused]

(* Shared tail of the two manual handlers; flow.steps[newStep - 1] of a    *)
(* position outside the array is undefined and step.node throws, after the *)
(* state update and the clear.                                             *)
ManualHighlight(w, newStep) ==
    LET flow == CurrentFlow(w)
        w1 == ClearHighlights([w EXCEPT !.currentStep = newStep])
    IN  IF newStep \in DOMAIN flow
        THEN HighlightNode(w1, flow[newStep].node, ManualHoldMs, flow[newStep].step,
                           0, <<w.selectedFlow, newStep>>)
        ELSE w1

HandlePreviousStep(w) ==
    IF Len(w.flows) = 0 THEN w
    ELSE ManualHighlight(w, Max(1, w.currentStep - 1))

HandleNextStep(w) ==
    IF Len(w.flows) = 0 THEN w
    ELSE ManualHighlight(w, Min(Len(CurrentFlow(w)), w.currentStep + 1))

SelectFlow(w, index) ==
    [w EXCEPT !.selectedFlow = index, !.isAnimating = FALSE, !.currentStep = 0]

---------------------------------------------------------------------------
(* Actions *)

Apply(w) ==
    /\ selectedFlow' = w.selectedFlow
    /\ isAnimating' = w.isAnimating
    /\ isPaused' = w.isPaused
    /\ currentStep' = w.currentStep
    /\ highlighted' = w.highlighted
    /\ arrows' = w.arrows
    /\ timers' = w.timers
    /\ loops' = w.loops
    /\ effectLoop' = w.effectLoop
    /\ animationTimeoutRef' = w.animationTimeoutRef
    /\ UNCHANGED flows
    /\ UNCHANGED matchVars
    /\ UNCHANGED serverVars
    /\ UNCHANGED requestVars

(* A click: the handler, then the commit of the state it set *)
Command(name, w) ==
    /\ Apply(Commit(w, Deps(World)))
    /\ lastCmd' = [name |-> name, step |-> currentStep, paused |-> isPaused,
                   animating |-> isAnimating]
    /\ cmds' = cmds + 1
    /\ clock' = 0

(* The Play/Stop button shows Play while not animating *)
Start ==
    /\ ~isAnimating /\ Len(flows) > 0
    /\ Command("start", HandleStartAnimation(World))

Stop ==
    /\ isAnimating /\ Len(flows) > 0
    /\ Command("stop", HandleStopAnimation(World))

(* Pause, Back and Forward are rendered only while animating *)
PauseToggle ==
    /\ isAnimating
    /\ Command(IF isPaused THEN "resume" ELSE "pause", HandlePauseToggle(World))

PreviousStep ==
    /\ isAnimating /\ ~(currentStep <= 1)
    /\ Command("back", HandlePreviousStep(World))

NextStep ==
    /\ isAnimating /\ ~(currentStep >= Len(CurrentFlow(World)))
    /\ Command("forward", HandleNextStep(World))

FlowSelect ==
    \E index \in 0..(Len(flows) - 1) :
        Command("select", SelectFlow(World, index))

(* The callback of the timer that is due first *)
TimerCallback(w, t) ==
    CASE t.kind = "arrow" ->
             [w EXCEPT !.arrows[t.target] =
                 [stroke |-> t.orig.stroke, width |-> t.orig.width,
                  glow |-> FALSE, dash |-> FALSE]]
      [] t.kind = "node" ->
             AfterAwait([w EXCEPT !.highlighted = @ \ {t.target}], t.loop)
      [] t.kind = "miss" -> AfterAwait(w, t.loop)
      [] t.kind = "animate" -> AnimateStep(w, t.loop)

Fire ==
    /\ timers # <<>>
    /\ Head(timers).rem = 0
    /\ LET w == [World EXCEPT !.timers = Tail(timers)]
       IN  Apply(Commit(TimerCallback(w, Head(timers)), Deps(World)))
    /\ UNCHANGED <<lastCmd, cmds, clock>>

(* The stopwatch of the history runs from a start command while the        *)
(* animation it started is on, and from a manual step for the manual hold. *)
StopwatchRuns ==
    \/ lastCmd.name = "start" /\ isAnimating
    \/ lastCmd.name \in {"back", "forward"} /\ clock < ManualHoldMs

(* Time passes, by one poll interval, while no timer is due *)
Tick ==
    /\ timers # <<>>
    /\ Head(timers).rem > 0
    /\ timers' = [i \in DOMAIN timers |-> [timers[i] EXCEPT !.rem = @ - PollMs]]
    /\ clock' = IF StopwatchRuns THEN clock + PollMs ELSE clock
    /\ UNCHANGED <<flows, selectedFlow, isAnimating, isPaused, currentStep, highlighted,
                   arrows, loops, effectLoop, animationTimeoutRef, lastCmd, cmds>>
    /\ UNCHANGED matchVars
    /\ UNCHANGED serverVars
    /\ UNCHANGED requestVars

NoCmd == [name |-> "none", step |-> 0, paused |-> FALSE, animating |-> FALSE]

Mounted ==
    /\ selectedFlow = 0
    /\ isAnimating = FALSE
    /\ isPaused = FALSE
    /\ currentStep = 0
    /\ highlighted = {}
    /\ arrows = RenderedArrows
    /\ timers = <<>>
    /\ loops = <<>>
    /\ effectLoop = 0
    /\ animationTimeoutRef = 0
    /\ lastCmd = NoCmd
    /\ cmds = 0
    /\ clock = 0

NoData == "none"

NoStream ==
    [analysisId |-> 0, started |-> FALSE, closed |-> FALSE, pollInterval |-> FALSE,
     polls |-> 0, reading |-> 0, events |-> <<>>, thrown |-> <<>>, aborted |-> FALSE]

(* The server as it starts: empty stores, no request yet *)
ServerStarted ==
    /\ jobs = <<>>
    /\ memoryBlobs = NoData
    /\ cacheMetadata = NoData
    /\ runs = <<>>
    /\ persisted = {}
    /\ stream = NoStream

(* ProgressStream before it is mounted: pc is the position of             *)
(* startAnalysis, eventSource the effect's local variable                  *)
NoClient == [mounted |-> FALSE, pc |-> "idle", eventSource |-> "null", error |-> FALSE]

(* No time has passed and no request was made; the requests to come are   *)
(* for the repository a/a                                                  *)
NoRequest ==
    /\ now = 0
    /\ body = [owner |-> <<"a">>, name |-> <<"a">>]
    /\ response =
           [status |-> 0, error |-> NoData, cached |-> FALSE, analysis |-> NoData,
            analysisId |-> 0]
    /\ client = NoClient

(* No label is being matched, and the server has seen no request *)
NoMatch ==
    /\ stepNode = <<>>
    /\ labelText = <<>>
    /\ matches = "pending"
    /\ ServerStarted
    /\ NoRequest

Init ==
    /\ flows = SampleFlows
    /\ Mounted
    /\ NoMatch

Next ==
    \/ cmds < MaxCmds /\ Start
    \/ cmds < MaxCmds /\ Stop
    \/ cmds < MaxCmds /\ PauseToggle
    \/ cmds < MaxCmds /\ PreviousStep
    \/ cmds < MaxCmds /\ NextStep
    \/ cmds < MaxCmds /\ FlowSelect
    \/ Fire
    \/ Tick

Spec == Init /\ [][Next]_vars

---------------------------------------------------------------------------
(* Playback without manual steps: start, stop, pause/resume, flow select   *)

NextPlayback ==
    \/ cmds < MaxCmds /\ Start
    \/ cmds < MaxCmds /\ Stop
    \/ cmds < MaxCmds /\ PauseToggle
    \/ cmds < MaxCmds /\ FlowSelect
    \/ Fire
    \/ Tick

SpecPlayback == Init /\ [][NextPlayback]_vars

---------------------------------------------------------------------------
(* A flow switch during autoplay: the user plays a flow, selects a flow,   *)
(* plays it, pauses and steps back, each command at any time.              *)

SwitchScript == <<"start", "select", "start", "pause", "back">>

Scripted(name) == cmds < Len(SwitchScript) /\ SwitchScript[cmds + 1] = name

NextSwitch ==
    \/ Scripted("start") /\ Start
    \/ Scripted("select") /\ FlowSelect
    \/ Scripted("pause") /\ PauseToggle
    \/ Scripted("back") /\ PreviousStep
    \/ Fire
    \/ Tick

SpecSwitch == Init /\ [][NextSwitch]_vars

---------------------------------------------------------------------------
(* A restart: the user plays a flow, pauses, selects a flow and plays it,  *)
(* each command at any time.                                               *)

RestartScript == <<"start", "pause", "select", "start">>

ScriptedRestart(name) == cmds < Len(RestartScript) /\ RestartScript[cmds + 1] = name

NextRestart ==
    \/ ScriptedRestart("start") /\ Start
    \/ ScriptedRestart("pause") /\ PauseToggle
    \/ ScriptedRestart("select") /\ FlowSelect
    \/ Fire
    \/ Tick

SpecRestart == Init /\ [][NextRestart]_vars

---------------------------------------------------------------------------
(* Uninterrupted autoplay: any one flow of at most MaxSteps steps, the     *)
(* only command is the start.  Timers that are due fire, and time passes.  *)

AutoDurations == {0, 800, 1000}

AutoLabels == {<<"client">>, <<"chat">>}

RECURSIVE AutoFlows(_)
AutoFlows(n) ==
    IF n = 0 THEN {<<>>}
    ELSE {Append(f, Step(n, l, d)) : f \in AutoFlows(n - 1), l \in AutoLabels,
                                      d \in AutoDurations}

InitAuto ==
    /\ \E n \in 0..MaxSteps : \E f \in AutoFlows(n) : flows = <<f>>
    /\ Mounted
    /\ NoMatch

NextAuto ==
    \/ cmds = 0 /\ Start
    \/ Fire
    \/ Tick

(* A timer whose delay has elapsed is due; the event loop runs every due    *)
(* callback, and time passes.  Fire is enabled exactly when a timer is due  *)
(* and always changes the queue, so the last conjunct is WF_vars(Fire)      *)
(* with its enabling condition written out.                                 *)
FireDue == timers # <<>> /\ Head(timers).rem = 0

SpecAuto ==
    /\ InitAuto
    /\ [][NextAuto]_vars
    /\ WF_vars(Tick)
    /\ ([]<>(~FireDue) \/ []<><<Fire>>_vars)

---------------------------------------------------------------------------
(* Uninterrupted autoplay of flows whose step fields repeat or leave gaps  *)

StepNumbers == {1, 3}

StepDurations == {0, 100}

RECURSIVE NumberedFlows(_)
NumberedFlows(n) ==
    IF n = 0 THEN {<<>>}
    ELSE {Append(f, Step(k, <<"client">>, d)) : f \in NumberedFlows(n - 1),
                                                 k \in StepNumbers, d \in StepDurations}

InitNumbered ==
    /\ \E n \in 0..MaxSteps : \E f \in NumberedFlows(n) : flows = <<f>>
    /\ Mounted
    /\ NoMatch

SpecNumbered ==
    /\ InitNumbered
    /\ [][NextAuto]_vars
    /\ WF_vars(Tick)
    /\ ([]<>(~FireDue) \/ []<><<Fire>>_vars)

---------------------------------------------------------------------------
(* Label matching in highlightNode, on strings.  A string is a sequence of  *)
(* characters: "a", "b" lower-case letters, "A" the upper-case of "a", " "  *)
(* white space, "E" an emoji in U+1F300..U+1F9FF, "V" the variation         *)
(* selector U+FE0F that may follow an emoji.                                *)

MaxLen == 3

Chars == {"a", "b", "A", " ", "E", "V"}

RECURSIVE Strings(_)
Strings(n) ==
    IF n = 0 THEN {<<>>}
    ELSE Strings(n - 1) \cup {Append(t, c) : t \in {u \in Strings(n - 1) : Len(u) = n - 1},
                                             c \in Chars}

(* String.prototype.toLowerCase *)
ToLowerCase(str) == [i \in DOMAIN str |-> IF str[i] = "A" THEN "a" ELSE str[i]]

IsWhiteSpace(c) == c = " "

(* String.prototype.trim *)
RECURSIVE Trim(_)
Trim(str) ==
    IF str = <<>> THEN str
    ELSE IF IsWhiteSpace(Head(str)) THEN Trim(Tail(str))
    ELSE IF IsWhiteSpace(str[Len(str)]) THEN Trim(SubSeq(str, 1, Len(str) - 1))
    ELSE str

(* labelText.replace(/[\u{1F300}-\u{1F9FF}]/gu, '') *)
RemoveEmojis(str) == SelectSeq(str, LAMBDA c : c # "E")

(* str.split(/\s+/): the pieces between the maximal runs of white space;   *)
(* the empty string gives one empty piece.                                 *)
RECURSIVE SplitFrom(_, _, _, _)
SplitFrom(str, i, piece, pieces) ==
    IF i > Len(str) THEN Append(pieces, piece)
    ELSE IF IsWhiteSpace(str[i])
    THEN IF i > 1 /\ IsWhiteSpace(str[i - 1])
         THEN SplitFrom(str, i + 1, piece, pieces)
         ELSE SplitFrom(str, i + 1, <<>>, Append(pieces, piece))
    ELSE SplitFrom(str, i + 1, Append(piece, str[i]), pieces)

Split(str) == SplitFrom(str, 1, <<>>, <<>>)

(* const words = normalizedName.split(/\s+/) *)
Words(name) == Split(Trim(ToLowerCase(name)))

(* const labelWords = cleanLabel.split(/\s+/) *)
LabelWords(text) == Split(Trim(RemoveEmojis(Trim(ToLowerCase(text)))))

(* const matches = words.every((word, idx) => labelWords[idx] === word) *)
LabelMatches(name, text) == MatchesLabel(Words(name), LabelWords(text))

(* One node of nodes.forEach for one step label *)
MatchLabel ==
    /\ matches = "pending"
    /\ matches' = IF LabelMatches(stepNode, labelText) THEN "match" ELSE "miss"
    /\ UNCHANGED <<stepNode, labelText>>
    /\ UNCHANGED viewerVars
    /\ UNCHANGED serverVars
    /\ UNCHANGED requestVars

InitMatch ==
    /\ flows = SampleFlows
    /\ Mounted
    /\ stepNode \in Strings(MaxLen)
    /\ labelText \in Strings(MaxLen)
    /\ matches = "pending"
    /\ ServerStarted
    /\ NoRequest

NextMatch == MatchLabel

SpecMatch == InitMatch /\ [][NextMatch]_vars

---------------------------------------------------------------------------
(* The server: the Status Store (analysis.ts on kv-client), the Result     *)
(* Store (storage.ts on blob-client), the cache metadata and the           *)
(* orchestrator runAnalysis.  One repository is analysed; the stores'      *)
(* own reads and writes succeed, as the in-memory clients' do; the         *)
(* download, the AI adapter and the blob upload may throw.                 *)

MaxJobs == 2

AnalysisStatus(s, p, e) == [status |-> s, progress |-> p, error |-> e]

(* const ANALYSIS_TTL = 60 * 60, in seconds *)
ANALYSIS_TTL == 3600

(* kvClient.set with { ex }: item.expiresAt = Date.now() + ex * 1000 *)
ExpiresAt(t, ex) == t + ex * 1000

(* A faulty kvClient.get, which never looks at expiresAt *)
KvHasForever(js, id, t) == id \in DOMAIN js

(* kvClient.get: the item is there and Date.now() is not past its          *)
(* expiresAt.  An expired item is deleted by the read that finds it; it    *)
(* stays in js here, for no read returns it again: time only advances and  *)
(* every write of a job reads it first.                                    *)
KvHas(js, id, t) == id \in DOMAIN js /\ ~(t > js[id].expiresAt)

(* getAnalysisJob(id) is not null *)
GetAnalysisJob(js, id, t) == KvHas(js, id, t)

(* A faulty creation, which returns the id and writes no record *)
CreateNoRecord(js, t) == js

(* A faulty creation, in the analyzing phase *)
CreateJobAnalyzing(js, t) ==
    Append(js, [status |-> AnalysisStatus("analyzing", 0, NoData), result |-> NoData,
                expiresAt |-> ExpiresAt(t, ANALYSIS_TTL)])

(* createAnalysisJob: a fresh id, status downloading at progress 0 *)
CreateAnalysisJob(js, t) ==
    Append(js, [status |-> AnalysisStatus("downloading", 0, NoData), result |-> NoData,
                expiresAt |-> ExpiresAt(t, ANALYSIS_TTL)])

UpdateAnalysisStatus(js, id, status, t) ==
    IF ~GetAnalysisJob(js, id, t) THEN js
    ELSE [js EXCEPT ![id].status = status,
                    ![id].expiresAt = ExpiresAt(t, ANALYSIS_TTL)]

(* A faulty completion, which does not attach the artifact *)
CompleteWithoutResult(js, id, result, t) ==
    IF ~GetAnalysisJob(js, id, t) THEN js
    ELSE [js EXCEPT ![id].status = AnalysisStatus("complete", 100, NoData),
                    ![id].expiresAt = ExpiresAt(t, ANALYSIS_TTL)]

CompleteAnalysisJob(js, id, result, t) ==
    IF ~GetAnalysisJob(js, id, t) THEN js
    ELSE [js EXCEPT ![id].status = AnalysisStatus("complete", 100, NoData),
                    ![id].result = result,
                    ![id].expiresAt = ExpiresAt(t, ANALYSIS_TTL)]

(* A faulty failure, which drops the message *)
FailWithoutMessage(js, id, error, t) ==
    IF ~GetAnalysisJob(js, id, t) THEN js
    ELSE [js EXCEPT ![id].status = AnalysisStatus("error", 0, NoData),
                    ![id].expiresAt = ExpiresAt(t, ANALYSIS_TTL)]

FailAnalysisJob(js, id, error, t) ==
    IF ~GetAnalysisJob(js, id, t) THEN js
    ELSE [js EXCEPT ![id].status = AnalysisStatus("error", 0, error),
                    ![id].expiresAt = ExpiresAt(t, ANALYSIS_TTL)]

(* The artifact run id produces: the analysis with its timestamp *)
ArtifactNames == <<"analysis 1", "analysis 2", "analysis 3", "analysis 4">>

FullAnalysis(id) == ArtifactNames[id]

(* The artifact getMockAnalysis gives, with its timestamp *)
MockArtifactNames == <<"mock analysis 1", "mock analysis 2", "mock analysis 3",
                       "mock analysis 4">>

FullMockAnalysis(id) == MockArtifactNames[id]

(* getMockAnalysis(repo).flows: one flow, its steps in order *)
GetMockAnalysis ==
    [flows |-> << << Step(1, <<"Client">>, 800),
                     Step(2, <<"Server">>, 800),
                     Step(3, <<"Cache">>, 600),
                     Step(4, <<"DB">>, 1000),
                     Step(5, <<"Server">>, 800),
                     Step(6, <<"Client">>, 800) >> >>]

Run(pc, error) == [pc |-> pc, error |-> error, analysis |-> NoData]

(* The owner and the name of a request are sequences of pieces: a piece    *)
(* is one character, or the text github.com, or the text .git.             *)
MaxField == 2

UrlPieces == {"a", "/", "!", "github.com", ".git"}

(* /^[a-zA-Z0-9._-]+$/ accepts these pieces *)
ValidPieces == {"a", "github.com", ".git"}

RECURSIVE Fields(_)
Fields(n) ==
    IF n = 0 THEN {<<>>}
    ELSE LET shorter == Fields(n - 1)
         IN  shorter \cup {Append(f, c) : f \in {g \in shorter : Len(g) = n - 1},
                                          c \in UrlPieces}

(* An owner may also be given with the host in front *)
Owners == Fields(MaxField) \cup {<<"github.com", "/">> \o f : f \in Fields(MaxField - 1)}

Bodies == [owner : Owners, name : Fields(MaxField)]

(* [^\/]+ from position i: the length of the run of pieces other than a    *)
(* slash                                                                   *)
RECURSIVE NonSlashRun(_, _)
NonSlashRun(url, i) ==
    IF i > Len(url) \/ url[i] = "/" THEN 0 ELSE 1 + NonSlashRun(url, i + 1)

NoRepo == [matched |-> FALSE, owner |-> <<>>, name |-> <<>>]

(* match[2].replace(/\.git$/, '') *)
WithoutGitSuffix(name) ==
    IF name # <<>> /\ name[Len(name)] = ".git" THEN SubSeq(name, 1, Len(name) - 1)
    ELSE name

(* owner at position i, a slash, name: what both patterns end with *)
OwnerSlashName(url, i) ==
    LET o == NonSlashRun(url, i)
        n == NonSlashRun(url, i + o + 1)
    IN  IF o >= 1 /\ i + o <= Len(url) /\ url[i + o] = "/" /\ n >= 1
        THEN [matched |-> TRUE,
              owner |-> SubSeq(url, i, i + o - 1),
              name |-> SubSeq(url, i + o + 1, i + o + n)]
        ELSE NoRepo

(* /github\.com\/([^\/]+)\/([^\/]+)/ at position i *)
LongFormAt(url, i) ==
    IF i + 1 <= Len(url) /\ url[i] = "github.com" /\ url[i + 1] = "/"
    THEN OwnerSlashName(url, i + 2)
    ELSE NoRepo

(* /^([^\/]+)\/([^\/]+)$/ *)
ShortForm(url) ==
    LET m == OwnerSlashName(url, 1)
    IN  IF m.matched /\ Len(m.owner) + 1 + Len(m.name) = Len(url) THEN m ELSE NoRepo

(* parseGitHubUrl: the first pattern that matches, at its leftmost match *)
ParseGitHubUrl(url) ==
    LET at == {i \in DOMAIN url : LongFormAt(url, i).matched}
        m == IF at # {}
             THEN LongFormAt(url, CHOOSE i \in at : \A j \in at : i <= j)
             ELSE ShortForm(url)
    IN  [m EXCEPT !.name = WithoutGitSuffix(@)]

ValidPattern(field) == field # <<>> /\ \A i \in DOMAIN field : field[i] \in ValidPieces

(* validateRepoUrl: the error, NoData when the url is valid *)
ValidateRepoUrl(url) ==
    LET repo == ParseGitHubUrl(url)
    IN  IF ~repo.matched THEN "Invalid GitHub repository URL"
        ELSE IF repo.owner = <<>> \/ repo.name = <<>> THEN "Invalid repository format"
        ELSE IF ~ValidPattern(repo.owner) \/ ~ValidPattern(repo.name)
        THEN "Invalid characters in repository name"
        ELSE NoData

(* `${owner}/${name}` *)
RepoUrl(b) == b.owner \o <<"/">> \o b.name

(* A faulty validation, which lets every request pass *)
RequestErrorNone(b) == NoData

(* The error of the request's validation, NoData when it passes; an absent *)
(* field and an empty one are both falsy.                                  *)
RequestError(b) ==
    IF b.owner = <<>> \/ b.name = <<>> THEN "Missing owner or name"
    ELSE IF ValidateRepoUrl(RepoUrl(b)) # NoData THEN ValidateRepoUrl(RepoUrl(b))
    ELSE IF ~ParseGitHubUrl(RepoUrl(b)).matched THEN "Invalid repository format"
    ELSE NoData

NoResponse ==
    [status |-> 0, error |-> NoData, cached |-> FALSE, analysis |-> NoData, analysisId |-> 0]

ErrorResponse(error) == [NoResponse EXCEPT !.status = 400, !.error = error]

CachedResponse(analysis) ==
    [NoResponse EXCEPT !.status = 200, !.cached = TRUE, !.analysis = analysis]

StartedResponse(id) == [NoResponse EXCEPT !.status = 200, !.analysisId = id]

(* A faulty cache check, which never finds the artifact *)
HasAnalysisNever(blobs) == FALSE

(* hasAnalysis(repo) and getAnalysis(repo) is not null *)
HasAnalysis(blobs) == blobs # NoData

(* POST /api/analyze with the body: rejected if the validation fails, the  *)
(* cached artifact if there is one, else a new job and its orchestrator    *)
(* run                                                                     *)
PostAnalyze ==
    IF RequestError(body) # NoData
    THEN /\ response' = ErrorResponse(RequestError(body))
         /\ UNCHANGED <<now, body, client, serverVars, viewerVars, matchVars>>
    ELSE IF HasAnalysis(memoryBlobs)
    THEN /\ response' = CachedResponse(memoryBlobs)
         /\ UNCHANGED <<now, body, client, serverVars, viewerVars, matchVars>>
    ELSE /\ Len(jobs) < MaxJobs
         /\ jobs' = CreateAnalysisJob(jobs, now)
         /\ runs' = Append(runs, Run("downloading", NoData))
         /\ response' = StartedResponse(Len(jobs) + 1)
         /\ UNCHANGED <<memoryBlobs, cacheMetadata, persisted, stream>>
         /\ UNCHANGED <<now, body, client, viewerVars, matchVars>>

(* One step of runAnalysis: from one await to the next *)
Goto(id, pc, error) == runs' = [runs EXCEPT ![id].pc = pc, ![id].error = error]

OnlyJobs == UNCHANGED <<memoryBlobs, cacheMetadata, persisted, stream, viewerVars, matchVars, requestVars>>

OnlyRun == UNCHANGED <<jobs, memoryBlobs, cacheMetadata, persisted, stream, viewerVars, matchVars, requestVars>>

StatusDownloading(id) ==
    /\ runs[id].pc = "downloading"
    /\ jobs' = UpdateAnalysisStatus(jobs, id, AnalysisStatus("downloading", 10, NoData), now)
    /\ Goto(id, "download", NoData)
    /\ OnlyJobs

Download(id) ==
    /\ runs[id].pc = "download"
    /\ Goto(id, "extracting", NoData)
    /\ OnlyRun

DownloadThrows(id) ==
    /\ runs[id].pc = "download"
    /\ Goto(id, "catch", "download failed")
    /\ OnlyRun

StatusExtracting(id) ==
    /\ runs[id].pc = "extracting"
    /\ jobs' = UpdateAnalysisStatus(jobs, id, AnalysisStatus("extracting", 30, NoData), now)
    /\ Goto(id, "analyzing", NoData)
    /\ OnlyJobs

StatusAnalyzing(id) ==
    /\ runs[id].pc = "analyzing"
    /\ jobs' = UpdateAnalysisStatus(jobs, id, AnalysisStatus("analyzing", 50, NoData), now)
    /\ Goto(id, "analyze", NoData)
    /\ OnlyJobs

AnalyzeWithClaude(id) ==
    /\ runs[id].pc = "analyze"
    /\ Goto(id, "generating", NoData)
    /\ OnlyRun

(* analyzeWithClaude without an API key or with an empty buffer *)
AnalyzeMock(id) ==
    /\ runs[id].pc = "analyze"
    /\ runs' = [runs EXCEPT ![id].pc = "generating", ![id].analysis = "mock"]
    /\ OnlyRun

(* fullAnalysis = { ...analysis, timestamp, repoInfo } *)
Artifact(id) ==
    IF runs[id].analysis = "mock" THEN FullMockAnalysis(id) ELSE FullAnalysis(id)

AnalyzeThrows(id) ==
    /\ runs[id].pc = "analyze"
    /\ Goto(id, "catch", "no text response")
    /\ OnlyRun

StatusGenerating(id) ==
    /\ runs[id].pc = "generating"
    /\ jobs' = UpdateAnalysisStatus(jobs, id, AnalysisStatus("generating", 80, NoData), now)
    /\ Goto(id, "save", NoData)
    /\ OnlyJobs

SaveAnalysis(id) ==
    /\ runs[id].pc = "save"
    /\ memoryBlobs' = Artifact(id)
    /\ persisted' = persisted \cup {Artifact(id)}
    /\ Goto(id, "metadata", NoData)
    /\ UNCHANGED <<jobs, cacheMetadata, stream, viewerVars, matchVars, requestVars>>

SaveThrows(id) ==
    /\ runs[id].pc = "save"
    /\ Goto(id, "catch", "upload failed")
    /\ OnlyRun

SetCacheMetadata(id) ==
    /\ runs[id].pc = "metadata"
    /\ cacheMetadata' = "mock-blob/analysis.json"
    /\ Goto(id, "complete", NoData)
    /\ UNCHANGED <<jobs, memoryBlobs, persisted, stream, viewerVars, matchVars, requestVars>>

(* kv.set of the production store (@vercel/kv) rejects: the artifact is   *)
(* already in the Result Store                                             *)
SetCacheMetadataThrows(id) ==
    /\ runs[id].pc = "metadata"
    /\ Goto(id, "catch", "kv set failed")
    /\ OnlyRun

Complete(id) ==
    /\ runs[id].pc = "complete"
    /\ jobs' = CompleteAnalysisJob(jobs, id, Artifact(id), now)
    /\ Goto(id, "done", NoData)
    /\ OnlyJobs

Fail(id) ==
    /\ runs[id].pc = "catch"
    /\ jobs' = FailAnalysisJob(jobs, id, runs[id].error, now)
    /\ Goto(id, "done", runs[id].error)
    /\ OnlyJobs

RunAnalysis ==
    \E id \in DOMAIN runs :
        \/ StatusDownloading(id)
        \/ Download(id)
        \/ DownloadThrows(id)
        \/ StatusExtracting(id)
        \/ StatusAnalyzing(id)
        \/ AnalyzeWithClaude(id)
        \/ AnalyzeThrows(id)
        \/ StatusGenerating(id)
        \/ SaveAnalysis(id)
        \/ SaveThrows(id)
        \/ SetCacheMetadata(id)
        \/ Complete(id)
        \/ Fail(id)

(* GET /api/analyze/[analysisId]/stream: one connection.  A poll is the     *)
(* interval callback: it starts, awaits the store read, and continues      *)
(* when the read returns.                                                  *)

MaxPolls == 2

NoStatus == AnalysisStatus(NoData, 0, NoData)

(* An emitted event: a status event carries the status, a complete event   *)
(* the artifact, an error event the message                                *)
Event(name, status, data) == [event |-> name, status |-> status, data |-> data]

(* sendEvent: controller.enqueue throws once the controller is closed *)
Sent(st, name, status, data) ==
    [st EXCEPT !.events = Append(@, Event(name, status, data))]

Threw(st, name) == [st EXCEPT !.thrown = Append(@, name)]

(* clearInterval(pollInterval); controller.close() *)
EndStream(st) == [st EXCEPT !.pollInterval = FALSE, !.closed = TRUE]

(* A faulty poll, which waits for a job that is not found *)
PollKeepsWaiting(st, js, t) ==
    LET found == GetAnalysisJob(js, st.analysisId, t)
        job == js[st.analysisId]
    IN  IF st.closed
        THEN Threw(Threw(st, IF found THEN "status" ELSE "error"), "error")
        ELSE IF ~found
        THEN st
        ELSE LET st1 == Sent(st, "status", job.status, NoData)
             IN  IF job.status.status = "complete" /\ job.result # NoData
                 THEN EndStream(Sent(st1, "complete", NoStatus, job.result))
                 ELSE IF job.status.status = "error"
                 THEN EndStream(Sent(st1, "error", NoStatus, job.status.error))
                 ELSE st1

(* A faulty poll, which keeps the stream open when the job is not found *)
PollContinuesOpen(st, js, t) ==
    IF st.closed THEN Threw(Threw(st, "error"), "error")
    ELSE IF ~GetAnalysisJob(js, st.analysisId, t)
    THEN Sent(st, "error", NoStatus, "Analysis job not found")
    ELSE Sent(st, "status", js[st.analysisId].status, NoData)

(* The interval callback after its await, on the job getAnalysisJob         *)
(* returned (null when the id has no record).  On a closed controller the  *)
(* first sendEvent throws, the catch block's sendEvent throws again and    *)
(* the callback ends there.                                                *)
PollContinues(st, js, t) ==
    LET found == GetAnalysisJob(js, st.analysisId, t)
        job == js[st.analysisId]
    IN  IF st.closed
        THEN Threw(Threw(st, IF found THEN "status" ELSE "error"), "error")
        ELSE IF ~found
        THEN EndStream(Sent(st, "error", NoStatus, "Analysis job not found"))
        ELSE LET st1 == Sent(st, "status", job.status, NoData)
             IN  IF job.status.status = "complete" /\ job.result # NoData
                 THEN EndStream(Sent(st1, "complete", NoStatus, job.result))
                 ELSE IF job.status.status = "error"
                 THEN EndStream(Sent(st1, "error", NoStatus, job.status.error))
                 ELSE st1

OnlyStream == UNCHANGED <<jobs, memoryBlobs, cacheMetadata, runs, persisted, viewerVars, matchVars, requestVars>>

StreamOpen ==
    /\ ~stream.started
    /\ \E id \in 1..MaxJobs :
           stream' = [NoStream EXCEPT !.analysisId = id, !.started = TRUE,
                                      !.pollInterval = TRUE]
    /\ OnlyStream

PollStart ==
    /\ stream.pollInterval
    /\ stream.polls < MaxPolls
    /\ stream' = [stream EXCEPT !.polls = @ + 1, !.reading = @ + 1]
    /\ OnlyStream

(* A faulty poll, which also marks the job as read *)
PollFinishTouches ==
    /\ stream.reading > 0
    /\ stream' = PollContinues([stream EXCEPT !.reading = @ - 1], jobs, now)
    /\ jobs' = UpdateAnalysisStatus(jobs, stream.analysisId, NoStatus, now)
    /\ UNCHANGED <<memoryBlobs, cacheMetadata, runs, persisted, viewerVars, matchVars,
                   requestVars>>

PollFinish ==
    /\ stream.reading > 0
    /\ stream' = PollContinues([stream EXCEPT !.reading = @ - 1], jobs, now)
    /\ OnlyStream

InitServer ==
    /\ flows = SampleFlows
    /\ Mounted
    /\ stepNode = <<>>
    /\ labelText = <<>>
    /\ matches = "pending"
    /\ ServerStarted
    /\ NoRequest

NextServer ==
    \/ PostAnalyze
    \/ RunAnalysis
    \/ StreamOpen
    \/ PollStart
    \/ PollFinish

SpecServer == InitServer /\ [][NextServer]_vars

---------------------------------------------------------------------------
(* One job and one connection over hours: the subscriber may disconnect    *)
(* and the records expire.                                                 *)

MaxTicks == 3

(* The clock is observed every half hour *)
ClockStepMs == 1800000

(* request.signal's abort listener: clearInterval(pollInterval) and        *)
(* controller.close(), which throws when the controller is closed already  *)
Abort ==
    /\ stream.started
    /\ ~stream.aborted
    /\ stream' = IF stream.closed
                 THEN [Threw(stream, "close") EXCEPT !.aborted = TRUE]
                 ELSE [EndStream(stream) EXCEPT !.aborted = TRUE]
    /\ OnlyStream

(* Time passes, at least until every record has expired *)
Advance ==
    /\ \/ now < MaxTicks * ClockStepMs
       \/ \E id \in DOMAIN jobs : KvHas(jobs, id, now)
    /\ now' = now + ClockStepMs
    /\ UNCHANGED <<body, response, client, serverVars, viewerVars, matchVars>>

(* The first request for the repository, and the requests that need no    *)
(* new job                                                                 *)
PostFirst ==
    /\ jobs = <<>> \/ HasAnalysis(memoryBlobs) \/ RequestError(body) # NoData
    /\ PostAnalyze

NextStream ==
    \/ PostFirst
    \/ RunAnalysis
    \/ StreamOpen
    \/ PollStart
    \/ PollFinish
    \/ Abort
    \/ Advance

SpecStream == InitServer /\ [][NextStream]_vars

SpecExpiry == InitServer /\ [][NextStream]_vars /\ WF_vars(Advance)

---------------------------------------------------------------------------
(* A connection whose polls keep firing: setInterval calls the callback    *)
(* every second until clearInterval.  After the first MaxPolls polls the   *)
(* further ones run one at a time, the subscriber having received the      *)
(* events sent so far.                                                     *)

PollAgain ==
    /\ stream.pollInterval
    /\ stream.polls = MaxPolls
    /\ stream.reading = 0
    /\ stream' = [stream EXCEPT !.reading = 1, !.events = <<>>]
    /\ OnlyStream

NextPolling ==
    \/ NextStream
    \/ PollAgain

(* The interval and the store reads are fair and time passes; nothing is   *)
(* assumed of the orchestrator or the subscriber.                          *)
SpecPolling ==
    /\ InitServer
    /\ [][NextPolling]_vars
    /\ WF_vars(PollStart)
    /\ WF_vars(PollAgain)
    /\ WF_vars(PollFinish)
    /\ WF_vars(Advance)

---------------------------------------------------------------------------
(* Creation requests with any owner and name, one after the other, with    *)
(* or without an API key, and the client that made the request.            *)

(* A faulty client, which connects whatever the response *)
StartAnalysisConnectsAlways ==
    /\ response.status # 0
    /\ ~stream.started
    /\ stream' = [NoStream EXCEPT !.analysisId = response.analysisId, !.started = TRUE,
                                  !.pollInterval = TRUE]
    /\ OnlyStream

(* startAnalysis after the response: new EventSource for the analysisId,   *)
(* unless the response is an error or carries the cached artifact          *)
StartAnalysisConnects ==
    /\ response.status = 200
    /\ ~response.cached
    /\ ~stream.started
    /\ stream' = [NoStream EXCEPT !.analysisId = response.analysisId, !.started = TRUE,
                                  !.pollInterval = TRUE]
    /\ OnlyStream

(* A request made while no run is in flight *)
PostNext ==
    /\ \A id \in DOMAIN runs : runs[id].pc = "done"
    /\ PostAnalyze

(* runAnalysis, also without an API key and with a store whose write of   *)
(* the cache metadata fails                                                *)
RunAnalysisOrMock ==
    \/ RunAnalysis
    \/ \E id \in DOMAIN runs : AnalyzeMock(id)
    \/ \E id \in DOMAIN runs : SetCacheMetadataThrows(id)

InitRequest ==
    /\ flows = SampleFlows
    /\ Mounted
    /\ stepNode = <<>>
    /\ labelText = <<>>
    /\ matches = "pending"
    /\ ServerStarted
    /\ now = 0
    /\ body \in Bodies
    /\ response = NoResponse
    /\ client = NoClient

NextRequest ==
    \/ PostNext
    \/ RunAnalysisOrMock
    \/ StartAnalysisConnects

SpecRequest == InitRequest /\ [][NextRequest]_vars

---------------------------------------------------------------------------
(* The ProgressStream component: its effect starts the creation request   *)
(* and, on the response, opens the event source; the effect's cleanup      *)
(* closes the event source the effect's variable holds at that time.       *)

ClientBodies == {[owner |-> <<"a">>, name |-> <<"a">>],
                 [owner |-> <<"!">>, name |-> <<"a">>]}

OnlyClient == UNCHANGED <<now, body, response, serverVars, viewerVars, matchVars>>

(* The effect runs: startAnalysis up to await fetch *)
Mount ==
    /\ ~client.mounted
    /\ client.pc = "idle"
    /\ client' = [client EXCEPT !.mounted = TRUE, !.pc = "fetching"]
    /\ OnlyClient

(* The server handles the request *)
FetchAnalyze ==
    /\ client.pc = "fetching"
    /\ response = NoResponse
    /\ PostAnalyze

(* startAnalysis after its awaits, whether or not the component is still   *)
(* mounted                                                                 *)
StartAnalysisResumes ==
    /\ client.pc = "fetching"
    /\ response # NoResponse
    /\ IF response.status # 200 \/ response.cached
       THEN /\ client' = [client EXCEPT !.pc = "done", !.error = TRUE]
            /\ UNCHANGED stream
       ELSE /\ client' = [client EXCEPT !.pc = "done", !.eventSource = "open"]
            /\ stream' = [NoStream EXCEPT !.analysisId = response.analysisId,
                                          !.started = TRUE, !.pollInterval = TRUE]
    /\ UNCHANGED <<now, body, response, jobs, memoryBlobs, cacheMetadata, runs, persisted,
                   viewerVars, matchVars>>

(* The effect's cleanup: eventSource?.close() *)
Unmount ==
    /\ client.mounted
    /\ client' = [client EXCEPT !.mounted = FALSE,
                                !.eventSource = IF @ = "open" THEN "closed" ELSE @]
    /\ OnlyClient

(* The listener of the error event *)
ErrorListener ==
    /\ client.eventSource = "open"
    /\ \E i \in DOMAIN stream.events : stream.events[i].event = "error"
    /\ client' = [client EXCEPT !.error = TRUE, !.eventSource = "closed"]
    /\ OnlyClient

(* The listener of the complete event reloads the page *)
CompleteListener ==
    /\ client.eventSource = "open"
    /\ \E i \in DOMAIN stream.events : stream.events[i].event = "complete"
    /\ client' = [client EXCEPT !.mounted = FALSE, !.pc = "reloaded",
                                !.eventSource = "closed"]
    /\ OnlyClient

(* The server's abort listener, once the client has closed the source *)
RequestAborted ==
    /\ client.eventSource = "closed"
    /\ Abort

InitClient ==
    /\ flows = SampleFlows
    /\ Mounted
    /\ stepNode = <<>>
    /\ labelText = <<>>
    /\ matches = "pending"
    /\ ServerStarted
    /\ now = 0
    /\ body \in ClientBodies
    /\ response = NoResponse
    /\ client = NoClient

NextClient ==
    \/ Mount
    \/ FetchAnalyze
    \/ StartAnalysisResumes
    \/ Unmount
    \/ ErrorListener
    \/ CompleteListener
    \/ RequestAborted
    \/ RunAnalysis
    \/ PollStart
    \/ PollFinish

SpecClient == InitClient /\ [][NextClient]_vars

---------------------------------------------------------------------------
(* Properties *)

ArrowEmphasized(a) == a.stroke = EmphasizedArrow.stroke \/ a.glow \/ a.dash

NoEmphasis ==
    /\ highlighted = {}
    /\ \A a \in DOMAIN arrows : ~ArrowEmphasized(arrows[a])

Idle == ~isAnimating /\ currentStep = 0

RECURSIVE SumDurations(_)
SumDurations(flow) ==
    IF flow = <<>> THEN 0
    ELSE flow[Len(flow)].duration + SumDurations(SubSeq(flow, 1, Len(flow) - 1))

(* C1: after a stop command, until the next command, the engine is idle at *)
(* step 0 and no node or edge carries emphasis: nothing scheduled before   *)
(* the stop changes the indicator or applies a highlight.                  *)
C1_StopLeavesNothingPending == lastCmd.name = "stop" => Idle /\ NoEmphasis

(* C8: uninterrupted autoplay is back at idle, step 0, when the time since *)
(* the start equals the sum of the authored durations of the flow.         *)
C8_AutoplayTakesSumOfDurations ==
    (lastCmd.name = "start" /\ Idle) => clock = SumDurations(flows[1])

(* C2: during autoplay at most one rendered node carries emphasis.         *)
C2_AtMostOneNodeEmphasized == isAnimating => Cardinality(highlighted) <= 1

(* C3: while the engine is paused, a step that is not a user command (a    *)
(* timer firing, time passing) leaves the step indicator as it is.         *)
C3_PauseFreezesStep ==
    [][(isAnimating /\ isPaused /\ cmds' = cmds) => currentStep' = currentStep]_vars

(* C4: after a flow is selected, until the next command, the engine is     *)
(* idle at step 0 and nothing of the flow played before is emphasized.     *)
C4_FlowSelectResets == lastCmd.name = "select" => Idle /\ NoEmphasis

(* C6: under autoplay the emphasis of a step is never applied while the    *)
(* scheduled removal of another step's node emphasis is still pending: the *)
(* removals pending for the steps of one flow all belong to one step.      *)
AutoplayWindows(f) ==
    {timers[i].pos[2] : i \in {j \in DOMAIN timers :
                                   /\ timers[j].kind = "node"
                                   /\ timers[j].loop # 0
                                   /\ timers[j].pos[1] = f}}

C6_StepWindowsDoNotOverlap ==
    \A f \in 0..(Len(flows) - 1) : Cardinality(AutoplayWindows(f)) <= 1

(* C5: a stop command, from playing or from paused, leaves step 0, not     *)
(* animating, not paused and no node or edge emphasized, and the stop      *)
(* handler applied to that state leaves it as it is.                       *)
StopAgain(w) == Commit(HandleStopAnimation(w), Deps(w))

C5_StopResetsAndIsIdempotent ==
    [][(cmds' # cmds /\ lastCmd'.name = "stop")
          => (Idle' /\ ~isPaused' /\ NoEmphasis' /\ StopAgain(World') = World')]_vars

C5_Witness ==
    /\ lastCmd.name = "stop" /\ lastCmd.paused /\ lastCmd.step > 0
    /\ timers # <<>> /\ clock = 0 /\ Idle /\ NoEmphasis

(* C7: uninterrupted autoplay of a flow of any length ends: after the      *)
(* start the engine is eventually idle at step 0 with no timer pending.    *)
C7_AutoplayEnds == (lastCmd.name = "start") ~> (Idle /\ timers = <<>>)

C7_Witness ==
    /\ lastCmd.name = "start" /\ Idle /\ timers = <<>>
    /\ Len(flows[1]) = MaxSteps /\ clock > 0

(* C9: a manual forward from step k sets the indicator to                  *)
(* min(k + 1, stepCount), a manual back to max(k - 1, 1), and for a flow   *)
(* with at least one step the indicator is then in 1..stepCount.           *)
C9_ManualStepClamps ==
    [][(cmds' # cmds /\ lastCmd'.name \in {"back", "forward"})
          => LET n == Len(CurrentFlow(World))
             IN  /\ lastCmd'.name = "forward" => currentStep' = Min(currentStep + 1, n)
                 /\ lastCmd'.name = "back" => currentStep' = Max(currentStep - 1, 1)
                 /\ n >= 1 => currentStep' \in 1..n]_vars

(* C10: for 5000 ms after a manual step, with no further command, every    *)
(* node the target step's label matches is emphasized.                     *)
ManualTarget ==
    IF lastCmd.name = "forward"
    THEN Min(Len(CurrentFlow(World)), lastCmd.step + 1)
    ELSE Max(1, lastCmd.step - 1)

C10_ManualStepHoldsFiveSeconds ==
    (/\ lastCmd.name \in {"back", "forward"}
     /\ clock < ManualHoldMs
     /\ ManualTarget \in DOMAIN CurrentFlow(World))
        => MatchingNodes(CurrentFlow(World)[ManualTarget].node) \subseteq highlighted

(* An emoji glyph is an emoji together with the variation selector that    *)
(* follows it.                                                             *)
InGlyph(str, i) == str[i] = "E" \/ (str[i] = "V" /\ i > 1 /\ str[i - 1] = "E")

RECURSIVE StripGlyphs(_)
StripGlyphs(str) ==
    IF str = <<>> THEN <<>>
    ELSE LET n == Len(str)
             front == StripGlyphs(SubSeq(str, 1, n - 1))
         IN  IF InGlyph(str, n) THEN front ELSE Append(front, str[n])

(* Trimmed, lower-cased and stripped of every emoji glyph *)
Normalized(str) == Trim(StripGlyphs(ToLowerCase(str)))

(* The words of the normalized string: its maximal runs without white space *)
Tokens(str) == SelectSeq(Split(Normalized(str)), LAMBDA piece : piece # <<>>)

BeginsWith(labelTokens, queryTokens) ==
    /\ Len(queryTokens) <= Len(labelTokens)
    /\ SubSeq(labelTokens, 1, Len(queryTokens)) = queryTokens

(* C11: a step label matches a rendered label if and only if the label's   *)
(* normalized token sequence begins, word for word, with the step label's  *)
(* normalized token sequence.                                              *)
C11_MatchIsTokenPrefix ==
    matches # "pending" =>
        (matches = "match" <=> BeginsWith(Tokens(labelText), Tokens(stepNode)))

(* C12: matching gives the same result on the labels as given and on the   *)
(* labels trimmed, lower-cased and stripped of every emoji glyph.          *)
C12_MatchIgnoresCaseSpaceEmoji ==
    matches # "pending" =>
        (matches = "match" <=> LabelMatches(Normalized(stepNode), Normalized(labelText)))

(* C13: in uninterrupted autoplay, while the step shown has a label that   *)
(* matches no rendered node, no node is emphasized; that step is left only *)
(* when the durations of the flow up to it have elapsed, for the next step *)
(* (after the last step: for idle), and it is left eventually.             *)
Unmatched(k) ==
    /\ isAnimating /\ currentStep = k
    /\ k \in DOMAIN flows[1]
    /\ MatchingNodes(flows[1][k].node) = {}

Advanced(k) ==
    IF k = Len(flows[1]) THEN Idle ELSE isAnimating /\ currentStep = k + 1

C13_UnmatchedLabelDoesNotBlock ==
    /\ [](\A k \in 1..(MaxSteps + 1) : Unmatched(k) => highlighted = {})
    /\ [][\A k \in 1..(MaxSteps + 1) :
             (Unmatched(k) /\ ~Unmatched(k)') =>
                 /\ Advanced(k)'
                 /\ clock' >= SumDurations(SubSeq(flows[1], 1, k))]_vars
    /\ \A k \in 1..(MaxSteps + 1) : Unmatched(k) ~> Advanced(k)

C13_Witness ==
    /\ Len(flows[1]) >= 2
    /\ MatchingNodes(flows[1][1].node) = {}
    /\ flows[1][1].duration > 0
    /\ isAnimating /\ currentStep = 2

(* C14: a start command, whatever the step indicator and the pause flag    *)
(* were, leaves the engine animating and not paused, showing step 1 with   *)
(* step 1's nodes, and no other node, emphasized.                          *)
C14_StartShowsStepOne ==
    [][(cmds' # cmds /\ lastCmd'.name = "start") =>
          /\ isAnimating' /\ ~isPaused' /\ currentStep' = 1
          /\ highlighted' = MatchingNodes(CurrentFlow(World')[1].node)]_vars

C14_Witness ==
    /\ lastCmd.name = "start" /\ lastCmd.paused /\ lastCmd.step > 1
    /\ clock = 0 /\ ~isPaused /\ currentStep = 1 /\ highlighted # {}

(* C15: in uninterrupted autoplay of any flow, whatever its step fields,   *)
(* the step indicator goes from 0 to 1 at the start, from each position to *)
(* the next, and from the last position to 0 when the animation ends,      *)
(* which it eventually does: 1, 2, ..., n are shown once each, in order.   *)
C15_IndicatorCountsPositions ==
    /\ [][currentStep' # currentStep =>
             \/ currentStep = 0 /\ currentStep' = 1 /\ cmds' # cmds
             \/ currentStep >= 1 /\ currentStep' = currentStep + 1
                                 /\ currentStep' <= Len(flows[1])
             \/ currentStep = Len(flows[1]) /\ currentStep' = 0 /\ ~isAnimating']_vars
    /\ (lastCmd.name = "start") ~> (Idle /\ timers = <<>>)

C15_Witness ==
    /\ Len(flows[1]) = MaxSteps
    /\ flows[1][1].step = 3 /\ flows[1][2].step = 3 /\ flows[1][MaxSteps].step = 1
    /\ isAnimating /\ currentStep = MaxSteps

(* C16: no write to a job's record lowers the stored progress percentage.  *)
C16_ProgressNeverDecreases ==
    [][\A id \in DOMAIN jobs :
          jobs'[id].status.progress >= jobs[id].status.progress]_vars

(* C17: a job is created in phase downloading at progress 0, and a write   *)
(* leaves its phase or moves it to a later one of downloading, extracting, *)
(* analyzing, generating, complete, or to error; complete and error are    *)
(* never left.                                                             *)
Phases == <<"downloading", "extracting", "analyzing", "generating", "complete", "error">>

PhaseRank(phase) == CHOOSE i \in DOMAIN Phases : Phases[i] = phase

C17_PhasesMoveForward ==
    [][\A id \in DOMAIN jobs' :
          IF id \notin DOMAIN jobs
          THEN jobs'[id].status = AnalysisStatus("downloading", 0, NoData)
          ELSE /\ PhaseRank(jobs'[id].status.status) >= PhaseRank(jobs[id].status.status)
               /\ jobs[id].status.status = "complete" => jobs'[id].status.status = "complete"]_vars

C17_Witness ==
    /\ Len(jobs) = 2
    /\ jobs[1].status.status = "complete"
    /\ jobs[2].status.status = "error" /\ runs[2].error = "upload failed"

(* C18: when a phase of a run has thrown, the run performs no further      *)
(* phase, and when it has ended the job's status is error with the thrown  *)
(* message; a record whose status is complete or error is never changed.   *)
C18_FailureIsTerminal ==
    /\ [](\A id \in DOMAIN runs :
             (runs[id].pc = "done" /\ runs[id].error # NoData) =>
                 /\ jobs[id].status.status = "error"
                 /\ jobs[id].status.error = runs[id].error)
    /\ [][\A id \in DOMAIN runs :
             /\ runs[id].pc = "catch" =>
                    /\ runs'[id].pc \in {"catch", "done"}
                    /\ runs'[id].error = runs[id].error
             /\ runs[id].pc = "done" => runs'[id] = runs[id]
             /\ jobs[id].status.status \in {"complete", "error"} => jobs'[id] = jobs[id]]_vars

C18_Witness ==
    /\ Len(jobs) = 2
    /\ runs[1].pc = "done" /\ jobs[1].status.error = "no text response"
    /\ runs[2].pc = "done" /\ jobs[2].status.status = "complete"

(* C19: a job whose status is complete carries its artifact, and that      *)
(* artifact has been written to the Result Store and the cache metadata    *)
(* has been written.                                                       *)
C19_CompleteHasPersistedArtifact ==
    \A id \in DOMAIN jobs :
        jobs[id].status.status = "complete" =>
            /\ jobs[id].result # NoData
            /\ jobs[id].result \in persisted
            /\ memoryBlobs # NoData
            /\ cacheMetadata # NoData

C19_Witness ==
    /\ Len(jobs) = 2
    /\ jobs[1].status.status = "complete" /\ jobs[2].status.status = "complete"
    /\ memoryBlobs = jobs[1].result

(* C20: a connection emits at most one terminal event (complete or error), *)
(* nothing is emitted after it, and no poll attempts to send an event on   *)
(* the closed stream.                                                      *)
TerminalEvents ==
    {i \in DOMAIN stream.events : stream.events[i].event \in {"complete", "error"}}

C20_OneTerminalEventThenSilence ==
    /\ Cardinality(TerminalEvents) <= 1
    /\ \A i \in TerminalEvents : i = Len(stream.events)
    /\ stream.thrown = <<>>

(* C21: after the subscriber disconnects, the interval is cleared, no poll *)
(* starts, no event is written and no write is attempted on the stream,    *)
(* also by a poll whose read was in flight; the disconnect itself raises   *)
(* no error, also when the stream has ended before.                        *)
C21_DisconnectSilencesStream ==
    /\ [](stream.aborted => ~stream.pollInterval)
    /\ [][stream.aborted =>
             /\ stream'.polls = stream.polls
             /\ stream'.events = stream.events
             /\ stream'.thrown = stream.thrown]_vars
    /\ [][(~stream.aborted /\ stream'.aborted) => stream'.thrown = stream.thrown]_vars

(* C22: a poll of an open stream that finds no record for the id, never    *)
(* created or expired, emits the not-found error event and nothing else    *)
(* and closes the stream; that event is the last one of its stream, and    *)
(* the only one when the id had no record at any poll.                     *)
NotFoundEvent == Event("error", NoStatus, "Analysis job not found")

PollReturns == stream'.reading < stream.reading

C22_UnknownJobGetsOneError ==
    /\ [][(PollReturns /\ ~stream.closed
               /\ ~GetAnalysisJob(jobs, stream.analysisId, now)) =>
             /\ stream'.events = Append(stream.events, NotFoundEvent)
             /\ stream'.closed
             /\ ~stream'.pollInterval]_vars
    /\ [](\A i \in DOMAIN stream.events :
             stream.events[i] = NotFoundEvent => i = Len(stream.events) /\ stream.closed)
    /\ [](stream.analysisId \notin DOMAIN jobs =>
             stream.events \in {<<>>, <<NotFoundEvent>>})

C22_Witness ==
    /\ stream.analysisId = 1
    /\ jobs # <<>> /\ now > jobs[1].expiresAt
    /\ stream.events = <<NotFoundEvent>>
    /\ stream.closed /\ ~stream.aborted

(* C23: every poll that finds the job emits exactly one status event, the  *)
(* status stored when the poll read it, then the complete or error event   *)
(* if the poll ends the stream, and nothing else.                          *)
NewEvents == SubSeq(stream'.events, Len(stream.events) + 1, Len(stream'.events))

C23_EachPollEmitsStoredStatus ==
    [][(PollReturns /\ GetAnalysisJob(jobs, stream.analysisId, now)) =>
          /\ Len(stream'.events) > Len(stream.events)
          /\ NewEvents[1] = Event("status", jobs[stream.analysisId].status, NoData)
          /\ \A i \in 2..Len(NewEvents) : NewEvents[i].event # "status"
          /\ Len(NewEvents) = IF stream'.closed THEN 2 ELSE 1
          /\ stream'.closed => NewEvents[2].event \in {"complete", "error"}]_vars

BadIdentity(b) ==
    \/ b.owner = <<>>
    \/ b.name = <<>>
    \/ ValidateRepoUrl(RepoUrl(b)) # NoData

C25_InvalidRequestChangesNothing ==
    BadIdentity(body) =>
        /\ jobs = <<>> /\ runs = <<>>
        /\ memoryBlobs = NoData /\ cacheMetadata = NoData /\ persisted = {}
        /\ ~stream.started
        /\ response # NoResponse =>
               /\ response.status = 400 /\ response.error # NoData
               /\ ~response.cached /\ response.analysisId = 0

C25_Witness ==
    /\ body.owner # <<>> /\ body.name # <<>>
    /\ ParseGitHubUrl(RepoUrl(body)).matched
    /\ ParseGitHubUrl(RepoUrl(body)).name = <<>>
    /\ response = ErrorResponse("Invalid repository format")

(* C26: every write of a job's record sets its expiry one hour after the   *)
(* write; the record is readable exactly until that time has passed, in    *)
(* whatever phase it is, and is never readable again; a poll after that    *)
(* reports the job as not found; and every record eventually is            *)
(* unreadable.                                                             *)
OneHourMs == 3600000

C26_RecordsExpireAfterAnHour ==
    /\ [](\A id \in DOMAIN jobs :
             GetAnalysisJob(jobs, id, now) <=> now <= jobs[id].expiresAt)
    /\ [][\A id \in DOMAIN jobs' :
             IF id \notin DOMAIN jobs \/ jobs'[id] # jobs[id]
             THEN jobs'[id].expiresAt = now + OneHourMs
             ELSE now' > jobs[id].expiresAt => ~GetAnalysisJob(jobs', id, now')]_vars
    /\ [][(PollReturns /\ ~stream.closed /\ stream.analysisId \in DOMAIN jobs
               /\ now > jobs[stream.analysisId].expiresAt) =>
             stream'.events = Append(stream.events, NotFoundEvent)]_vars
    /\ \A id \in 1..MaxJobs :
           (id \in DOMAIN jobs) ~> [](~GetAnalysisJob(jobs, id, now))

C26_Witness ==
    /\ jobs # <<>>
    /\ jobs[1].status.status = "analyzing"
    /\ now = jobs[1].expiresAt + ClockStepMs
    /\ stream.analysisId = 1
    /\ Len(stream.events) = 2
    /\ stream.events[1].status.status = "analyzing"
    /\ stream.events[2] = NotFoundEvent

IsMockArtifact(artifact) == \E id \in DOMAIN MockArtifactNames : artifact = MockArtifactNames[id]

C28_PlaceholderHasFourSteps ==
    IsMockArtifact(memoryBlobs) =>
        /\ Len(GetMockAnalysis.flows) = 1
        /\ Len(GetMockAnalysis.flows[1]) = 4

(* C29: when the reset of an edge's emphasis runs, at the end of the       *)
(* step's duration, the edge has the stroke and the stroke width it had    *)
(* before that emphasis began, and its dash animation has stopped,         *)
(* whatever happened during the dwell.                                     *)
ArrowResetRuns ==
    /\ timers # <<>>
    /\ Head(timers).rem = 0
    /\ Head(timers).kind = "arrow"
    /\ cmds' = cmds

C29_EdgeStyleRestored ==
    [][ArrowResetRuns =>
          LET t == Head(timers)
          IN  /\ arrows'[t.target].stroke = t.orig.before.stroke
              /\ arrows'[t.target].width = t.orig.before.width
              /\ ~arrows'[t.target].dash]_vars

(* C30: a resume leaves the step indicator at the step k it was paused at, *)
(* and from the resume until the next command the indicator only moves     *)
(* from a step to the next one (from the last step to 0, at the end): no   *)
(* step is skipped and the indicator never moves backwards.                *)
C30_ResumeContinuesFromStep ==
    /\ [][(cmds' # cmds /\ lastCmd'.name = "resume") => currentStep' = currentStep]_vars
    /\ [][(lastCmd.name = "resume" /\ cmds' = cmds /\ currentStep' # currentStep) =>
             \/ currentStep' = currentStep + 1
             \/ currentStep = Len(CurrentFlow(World)) /\ currentStep' = 0]_vars

---------------------------------------------------------------------------
(* C31: during one autoplay pass at most one autoplay loop is live: no     *)
(* second loop has a callback pending, and a loop whose effect has been    *)
(* cleaned up (a loop other than the one of the registered effect) never   *)
(* advances the step indicator or applies a highlight when its animate     *)
(* timer fires.                                                            *)

(* The due callback is animateStep of a loop whose effect was cleaned up *)
StaleLoopRuns ==
    /\ FireDue
    /\ Head(timers).kind = "animate"
    /\ Head(timers).loop # effectLoop
    /\ timers' # timers
    /\ cmds' = cmds

C31_OneLiveLoop ==
    /\ [](Cardinality(DOMAIN loops) <= 1)
    /\ [][StaleLoopRuns => /\ currentStep' = currentStep
                           /\ highlighted' \subseteq highlighted]_vars

(* C32: in every reachable state the step indicator is between 0 and the   *)
(* number of steps of the currently selected flow.                         *)
C32_IndicatorWithinFlow ==
    currentStep >= 0 /\ currentStep <= Len(flows[selectedFlow + 1])

(* C33: the pause flag is set only while the engine is animating.          *)
C33_PausedOnlyWhileAnimating == isPaused => isAnimating

(* C34: once the orchestrators have ended, the Result Store holds an       *)
(* artifact for the repository only if some job for it reached status      *)
(* complete: a job that ends in error leaves no artifact that a later      *)
(* creation request would return as cached.                                *)
C34_ArtifactOnlyAfterComplete ==
    (memoryBlobs # NoData /\ \A id \in DOMAIN runs : runs[id].pc = "done")
        => \E id \in DOMAIN jobs : jobs[id].status.status = "complete"

(* C35: the job record is in the Status Store when its id is returned and  *)
(* when its orchestrator starts, so a poll of a stream opened with a       *)
(* returned id, made within an hour of the record's last write, never      *)
(* reports the job as not found.                                           *)
C35_ReturnedIdIsStored ==
    /\ [](response.analysisId # 0 => response.analysisId \in DOMAIN jobs)
    /\ [](DOMAIN runs \subseteq DOMAIN jobs)
    /\ [][(/\ PollReturns
           /\ stream.analysisId = response.analysisId
           /\ now <= jobs[stream.analysisId].expiresAt)
             => \A i \in DOMAIN NewEvents : NewEvents[i] # NotFoundEvent]_vars

C35_Witness ==
    /\ response.analysisId = 1
    /\ stream.analysisId = 1
    /\ runs[1].pc = "downloading"
    /\ now <= jobs[1].expiresAt
    /\ stream.events = <<Event("status", AnalysisStatus("downloading", 0, NoData), NoData)>>

(* C36: provided polls keep firing, every stream connection eventually     *)
(* ends, also when the orchestrator never finishes; a connection that the  *)
(* subscriber did not end has ended with a complete or an error event.     *)
C36_StreamEventuallyEnds ==
    /\ stream.started ~> stream.closed
    /\ [](stream.closed /\ ~stream.aborted =>
             /\ stream.events # <<>>
             /\ stream.events[Len(stream.events)].event \in {"complete", "error"})

C36_Witness ==
    /\ stream.closed /\ ~stream.aborted
    /\ stream.polls = MaxPolls
    /\ runs # <<>> /\ runs[1].pc = "analyze"
    /\ now > jobs[1].expiresAt
    /\ stream.events = <<NotFoundEvent>>

(* C37: after the ProgressStream component is unmounted no event source of *)
(* that component is open, also when the unmount happens while the         *)
(* creation request is in flight.                                          *)
C37_NoSourceAfterUnmount == ~client.mounted => client.eventSource # "open"

=============================================================================
